---- MODULE Spec2Model ----
(***************************************************************************)
(* Model of the recipe finder: the serving scaler (servingScaler.ts:       *)
(* parseQuantity, toFraction, scaleIngredient, scaleRecipeServings) and    *)
(* the recipe search (handleRecipeSearch, searchForRecipe, the cache),      *)
(* withRetry of the Claude service and the ChatInterface component.        *)
(*                                                                         *)
(* Text is a sequence of one-character strings, so that trimming, case     *)
(* folding, substring search and the three regular expressions are        *)
(* computed character by character.                                        *)
(*                                                                         *)
(* A JavaScript number is a record [k, n, d, x]:                           *)
(*   k = "num": the finite value n/d in lowest terms; x says whether the   *)
(*              double holds n/d exactly (x = FALSE: the double is n/d up  *)
(*              to rounding error);                                        *)
(*   k = "inf": Infinity;  k = "nan": NaN;  k = "null": null.              *)
(***************************************************************************)
EXTENDS Integers, Sequences, FiniteSets, TLC

VARIABLES
    op,              \* the function that was called last ("none" at start)
    quantity,        \* argument of parseQuantity
    ingredient,      \* argument of scaleIngredient, as it was passed
    ingredientAfter, \* the object passed to scaleIngredient, after the call
    fromServings,    \* argument of scaleIngredient
    toServings,      \* argument of scaleIngredient and scaleRecipeServings
    decimal,         \* argument of toFraction
    rounding,        \* outcome of the floating-point roundings inside toFraction
    parsed,          \* value returned by parseQuantity
    text,            \* value returned by toFraction
    scaled,          \* value returned by scaleIngredient
    recipe,          \* argument of scaleRecipeServings, as it was passed
    recipeAfter,     \* the object passed to scaleRecipeServings, after the call
    roundings,       \* the rounding inside each toFraction of scaleRecipeServings
    scaledRecipe,    \* value returned by scaleRecipeServings
    request,         \* body of the search request being handled or just answered
    pc,              \* the await at which searchForRecipe stands ("idle": none)
    searched,        \* TRUE when handleRecipeSearch called searchForRecipe
    scaling,         \* the call of scaleRecipeServings made by searchForRecipe
    response,        \* the HTTP response to the request (NoResponse: not sent)
    steps,           \* what searchForRecipe did for the request, in order
    stored,          \* by query hash, the recipe the last fresh search
                     \* returned and the time it was cached, while no
                     \* more than 7 days old
    cache,           \* the rows of the recipes table
    call,            \* the direct call of a function of the cache in progress
    now,             \* Date.now(), in weeks
    wr,              \* where withRetry stands: "none" (not called), at the
                     \* await of the "operation", at the await of the
                     \* "delay", or "done"
    maxRetries,      \* argument of withRetry
    attempt,         \* loop variable of withRetry
    lastError,       \* the type of the error withRetry caught last
                     \* ("undefined": lastError is not assigned yet)
    invocations,     \* number of calls of operation() made by withRetry
    delays,          \* the delays withRetry has asked setTimeout for, in seconds
    result,          \* how withRetry ended
    messages,        \* state of ChatInterface: the messages shown
    input,           \* state of ChatInterface: the text of the input field
    isLoading,       \* state of ChatInterface
    currentRecipe,   \* state of AppContent, set through onRecipeFound
    inFlight,        \* the queries of the searchRecipes calls not settled yet
    lastSend         \* what the last call of handleSend did

scalerVars == <<op, quantity, ingredient, ingredientAfter, fromServings,
                toServings, decimal, rounding, parsed, text, scaled, recipe,
                recipeAfter, roundings, scaledRecipe>>

searchVars == <<request, pc, searched, scaling, response, steps, stored, cache,
                call, now>>

retryVars == <<wr, maxRetries, attempt, lastError, invocations, delays, result>>

chatVars == <<messages, input, isLoading, currentRecipe, inFlight, lastSend>>

vars == <<scalerVars, searchVars, retryVars, chatVars>>

(***************************************************************************)
(* Bounds of the model.                                                    *)
(***************************************************************************)
MaxLen == 4        \* longest text enumerated exhaustively over SmallAlphabet
MaxInt == 3        \* largest integer written in a structured quantity text
MaxWhole == 2      \* largest integer part of a direct toFraction argument
MaxServings == 4   \* largest serving count
MaxIngredients == 3   \* longest ingredient list of a recipe
MaxTime == 2   \* last value of the clock, in weeks
MaxCacheEntries == 1   \* most rows the recipes table holds
MaxAccessCount == 3   \* largest access_count of a row
MaxRetries == 4   \* largest maxRetries passed to withRetry
MaxMessages == 5   \* most messages ChatInterface shows before a send

(***************************************************************************)
(* Characters and text.                                                    *)
(***************************************************************************)
Digits == <<"0", "1", "2", "3", "4", "5", "6", "7", "8", "9">>

LowerLetters ==
    <<"a", "b", "c", "d", "e", "f", "g", "h", "i", "j", "k", "l", "m",
      "n", "o", "p", "q", "r", "s", "t", "u", "v", "w", "x", "y", "z">>

UpperLetters ==
    <<"A", "B", "C", "D", "E", "F", "G", "H", "I", "J", "K", "L", "M",
      "N", "O", "P", "Q", "R", "S", "T", "U", "V", "W", "X", "Y", "Z">>

Range(f) == {f[i] : i \in DOMAIN f}

IsDigit(c) == c \in Range(Digits)

IsLetter(c) == c \in Range(LowerLetters) \cup Range(UpperLetters)

IsSpace(c) == c \in {" ", "\t"}

DigitVal(c) == (CHOOSE i \in DOMAIN Digits : Digits[i] = c) - 1

LowerChar(c) ==
    IF c \in Range(UpperLetters)
    THEN LowerLetters[CHOOSE i \in DOMAIN UpperLetters : UpperLetters[i] = c]
    ELSE c

toLowerCase(s) == [i \in DOMAIN s |-> LowerChar(s[i])]

trim(s) ==
    IF \A i \in DOMAIN s : IsSpace(s[i])
    THEN <<>>
    ELSE LET first == CHOOSE i \in DOMAIN s :
                         /\ ~IsSpace(s[i])
                         /\ \A j \in 1..(i - 1) : IsSpace(s[j])
             last  == CHOOSE i \in DOMAIN s :
                         /\ ~IsSpace(s[i])
                         /\ \A j \in (i + 1)..Len(s) : IsSpace(s[j])
         IN  SubSeq(s, first, last)

includes(s, term) ==
    \E i \in 1..(Len(s) - Len(term) + 1) :
        SubSeq(s, i, i + Len(term) - 1) = term

\* Index of the last character of the longest run of characters satisfying
\* P that starts at position i; i - 1 when the run is empty.
RunEnd(s, i, P(_)) ==
    CHOOSE j \in (i - 1)..Len(s) :
        /\ \A m \in i..j : P(s[m])
        /\ j < Len(s) => ~P(s[j + 1])

RECURSIVE parseInt(_)
parseInt(s) ==
    IF s = <<>> THEN 0
    ELSE 10 * parseInt(SubSeq(s, 1, Len(s) - 1)) + DigitVal(s[Len(s)])

RECURSIVE Pow10(_)
Pow10(k) == IF k = 0 THEN 1 ELSE 10 * Pow10(k - 1)

(***************************************************************************)
(* Numbers.                                                                *)
(***************************************************************************)
RECURSIVE GCD(_, _)
GCD(a, b) == IF b = 0 THEN a ELSE GCD(b, a % b)

RECURSIVE IsPow2(_)
IsPow2(d) == IF d = 1 THEN TRUE ELSE IF d % 2 = 1 THEN FALSE ELSE IsPow2(d \div 2)

null == [k |-> "null", n |-> 0, d |-> 1, x |-> TRUE]
Infinity == [k |-> "inf", n |-> 1, d |-> 0, x |-> TRUE]
NaN == [k |-> "nan", n |-> 0, d |-> 0, x |-> TRUE]

\* The double nearest to n/d (d > 0): exact when n/d is a dyadic rational.
Num(n, d) ==
    LET g == GCD(n, d)
    IN  [k |-> "num", n |-> n \div g, d |-> d \div g, x |-> IsPow2(d \div g)]

\* The result of a floating-point operation whose real value is n/d and
\* whose operands were exact (ex) or not.
Computed(n, d, ex) ==
    LET g == GCD(n, d)
    IN  [k |-> "num", n |-> n \div g, d |-> d \div g,
         x |-> (n = 0) \/ (ex /\ IsPow2(d \div g))]

\* JavaScript a / b for non-negative integers a, b.
DivInt(a, b) ==
    IF b = 0 THEN (IF a = 0 THEN NaN ELSE Infinity) ELSE Num(a, b)

\* A JavaScript value met where a serving count is expected: a number
\* (t = "number", v its value), a string that reads as the number v
\* (t = "numeric string"), any other string (t = "text"), undefined or null.
Number(n) == [t |-> "number", v |-> n]
NumericString(n) == [t |-> "numeric string", v |-> n]
SomeText == [t |-> "text", v |-> 0]
undefined == [t |-> "undefined", v |-> 0]
nullValue == [t |-> "null", v |-> 0]

\* JavaScript ToNumber, applied by /, < and > to an operand.
ToNumber(val) ==
    IF val.t \in {"number", "numeric string"} THEN Num(val.v, 1)
    ELSE IF val.t = "null" THEN Num(0, 1)
    ELSE NaN

\* JavaScript a / b for two values that are non-negative integers once
\* converted to numbers, or NaN.
Divide(a, b) ==
    IF ToNumber(a).k = "nan" \/ ToNumber(b).k = "nan" THEN NaN
    ELSE DivInt(ToNumber(a).n, ToNumber(b).n)

\* JavaScript whole + q for a non-negative integer whole.
AddInt(whole, q) ==
    IF q.k # "num" THEN q
    ELSE Computed(whole * q.d + q.n, q.d, q.x)

\* JavaScript a * b for non-negative a, b.
Mul(a, b) ==
    IF a.k = "nan" \/ b.k = "nan" THEN NaN
    ELSE IF a.k = "inf" THEN (IF b.k = "num" /\ b.n = 0 THEN NaN ELSE Infinity)
    ELSE IF b.k = "inf" THEN (IF a.n = 0 THEN NaN ELSE Infinity)
    ELSE Computed(a.n * b.n, a.d * b.d, a.x /\ b.x)

(***************************************************************************)
(* parseQuantity                                                           *)
(***************************************************************************)
nonScalableTerms ==
    << <<"t", "o", " ", "t", "a", "s", "t", "e">>,
       <<"p", "i", "n", "c", "h">>,
       <<"d", "a", "s", "h">>,
       <<"h", "a", "n", "d", "f", "u", "l">>,
       <<"s", "p", "l", "a", "s", "h">> >>

\* MixedAt with exactly one whitespace character between the whole number
\* and the fraction (\s in place of \s+)
MixedAtOneSpace(s, i) ==
    LET j == RunEnd(s, i, IsDigit)
        l == RunEnd(s, j + 2, IsDigit)
        m == RunEnd(s, l + 2, IsDigit)
    IN  IF /\ j >= i
           /\ j + 1 <= Len(s)
           /\ IsSpace(s[j + 1])
           /\ l >= j + 2
           /\ l + 1 <= Len(s)
           /\ s[l + 1] = "/"
           /\ m >= l + 2
        THEN << SubSeq(s, i, j), SubSeq(s, j + 2, l), SubSeq(s, l + 2, m) >>
        ELSE <<>>

\* /(\d+)\s+(\d+)\/(\d+)/ matched at position i: the ends of the three
\* groups, or <<>> when there is no match at i.
MixedAt(s, i) ==
    LET j == RunEnd(s, i, IsDigit)
        g == RunEnd(s, j + 1, IsSpace)
        l == RunEnd(s, g + 1, IsDigit)
        m == RunEnd(s, l + 2, IsDigit)
    IN  IF /\ j >= i
           /\ g >= j + 1
           /\ l >= g + 1
           /\ l + 1 <= Len(s)
           /\ s[l + 1] = "/"
           /\ m >= l + 2
        THEN << SubSeq(s, i, j), SubSeq(s, g + 1, l), SubSeq(s, l + 2, m) >>
        ELSE <<>>

\* /(\d+)\/(\d+)/ matched at position i
FractionAt(s, i) ==
    LET j == RunEnd(s, i, IsDigit)
        m == RunEnd(s, j + 2, IsDigit)
    IN  IF /\ j >= i
           /\ j + 1 <= Len(s)
           /\ s[j + 1] = "/"
           /\ m >= j + 2
        THEN << SubSeq(s, i, j), SubSeq(s, j + 2, m) >>
        ELSE <<>>

\* /(\d+\.?\d*)/ matched at position i: integer digits and decimals
NumberAt(s, i) ==
    LET j == RunEnd(s, i, IsDigit)
    IN  IF j < i THEN <<>>
        ELSE IF j + 1 <= Len(s) /\ s[j + 1] = "."
             THEN << SubSeq(s, i, j), SubSeq(s, j + 2, RunEnd(s, j + 2, IsDigit)) >>
             ELSE << SubSeq(s, i, j), <<>> >>

\* String.prototype.match without the g flag: the leftmost match
Match(s, At(_, _)) ==
    IF \A i \in DOMAIN s : At(s, i) = <<>>
    THEN <<>>
    ELSE At(s, CHOOSE i \in DOMAIN s :
                   /\ At(s, i) # <<>>
                   /\ \A j \in 1..(i - 1) : At(s, j) = <<>>)

parseFloat(m) == Num(parseInt(m[1]) * Pow10(Len(m[2])) + parseInt(m[2]), Pow10(Len(m[2])))

\* parseQuantity with the numeric patterns tried before the non-scalable
\* terms
parseQuantityNumbersFirst(qty) ==
    LET trimmed == toLowerCase(trim(qty))
        mixedMatch == Match(trimmed, MixedAt)
        fractionMatch == Match(trimmed, FractionAt)
        numberMatch == Match(trimmed, NumberAt)
    IN  IF mixedMatch # <<>>
        THEN AddInt(parseInt(mixedMatch[1]),
                    DivInt(parseInt(mixedMatch[2]), parseInt(mixedMatch[3])))
        ELSE IF fractionMatch # <<>>
        THEN DivInt(parseInt(fractionMatch[1]), parseInt(fractionMatch[2]))
        ELSE IF numberMatch # <<>>
        THEN parseFloat(numberMatch)
        ELSE null

\* parseQuantity with the simple fraction tried before the mixed number
parseQuantityFractionFirst(qty) ==
    LET trimmed == toLowerCase(trim(qty))
        mixedMatch == Match(trimmed, MixedAt)
        fractionMatch == Match(trimmed, FractionAt)
        numberMatch == Match(trimmed, NumberAt)
    IN  IF \E t \in DOMAIN nonScalableTerms : includes(trimmed, nonScalableTerms[t])
        THEN null
        ELSE IF fractionMatch # <<>>
        THEN DivInt(parseInt(fractionMatch[1]), parseInt(fractionMatch[2]))
        ELSE IF mixedMatch # <<>>
        THEN AddInt(parseInt(mixedMatch[1]),
                    DivInt(parseInt(mixedMatch[2]), parseInt(mixedMatch[3])))
        ELSE IF numberMatch # <<>>
        THEN parseFloat(numberMatch)
        ELSE null

parseQuantity(qty) ==
    LET trimmed == toLowerCase(trim(qty))
        mixedMatch == Match(trimmed, MixedAt)
        fractionMatch == Match(trimmed, FractionAt)
        numberMatch == Match(trimmed, NumberAt)
    IN  IF \E t \in DOMAIN nonScalableTerms : includes(trimmed, nonScalableTerms[t])
        THEN null
        ELSE IF mixedMatch # <<>>
        THEN AddInt(parseInt(mixedMatch[1]),
                    DivInt(parseInt(mixedMatch[2]), parseInt(mixedMatch[3])))
        ELSE IF fractionMatch # <<>>
        THEN DivInt(parseInt(fractionMatch[1]), parseInt(fractionMatch[2]))
        ELSE IF numberMatch # <<>>
        THEN parseFloat(numberMatch)
        ELSE null

(***************************************************************************)
(* toFraction                                                              *)
(***************************************************************************)
\* Number.prototype.toString of a non-negative integer
RECURSIVE toString(_)
toString(n) ==
    IF n < 10 THEN <<Digits[n + 1]>>
    ELSE toString(n \div 10) \o <<Digits[(n % 10) + 1]>>

\* The candidate list of toFraction: the value, in hundredths (0.25 is 25),
\* and the text shown for it
fractions ==
    << [value |-> 0,  str |-> <<>>],
       [value |-> 25, str |-> <<"1", "/", "4">>],
       [value |-> 33, str |-> <<"1", "/", "3">>],
       [value |-> 50, str |-> <<"1", "/", "2">>],
       [value |-> 67, str |-> <<"2", "/", "3">>],
       [value |-> 75, str |-> <<"3", "/", "4">>] >>

\* The tolerance 0.05, in hundredths, below which the fractional part is
\* rounded away
tolerance == 5

Abs(a) == IF a < 0 THEN -a ELSE a

\* Math.floor(decimal).  An inexact double whose real value is the integer
\* n >= 1 may lie just below n: r.down says that it does.
floor(dec, r) ==
    IF r.down THEN (dec.n \div dec.d) - 1 ELSE dec.n \div dec.d

\* Math.abs(fraction - frac.value) for candidate i, where fraction is
\* decimal - whole.  The real value is n / (100 * dec.d); e (-1, 0, 1) is the
\* side of it on which the computed double lies when the subtraction is not
\* exact.
diffTo(dec, r, i) ==
    LET whole == floor(dec, r)
        fn == dec.n - whole * dec.d      \* fraction = fn / dec.d
    IN  [n |-> Abs(fn * 100 - fractions[i].value * dec.d), e |-> r.e[i]]

\* a < b on two computed differences for the same decimal
Less(a, b) == a.n < b.n \/ (a.n = b.n /\ a.e < b.e)

\* closestAfter with "diff <= minDiff": the last minimal candidate wins
RECURSIVE closestAfterLastWins(_, _, _)
closestAfterLastWins(dec, r, i) ==
    IF i = 0 THEN 1
    ELSE LET c == closestAfterLastWins(dec, r, i - 1)
         IN  IF ~Less(diffTo(dec, r, c), diffTo(dec, r, i)) THEN i ELSE c

\* The loop "for (const frac of fractions) if (diff < minDiff) ...": the
\* index of closest after the first i candidates have been visited.
RECURSIVE closestAfter(_, _, _)
closestAfter(dec, r, i) ==
    IF i = 0 THEN 1
    ELSE LET c == closestAfter(dec, r, i - 1)
         IN  IF Less(diffTo(dec, r, i), diffTo(dec, r, c)) THEN i ELSE c

closestIndex(dec, r) == closestAfter(dec, r, Len(fractions))

\* minDiff < 0.05
withinTolerance(dec, minDiff) == Less(minDiff, [n |-> tolerance * dec.d, e |-> 0])

\* render that rounds down to whole whenever minDiff < 0.05, whatever the
\* closest candidate
renderRoundsDown(whole, c, close) ==
    IF close
    THEN toString(whole)
    ELSE IF whole = 0 THEN fractions[c].str
    ELSE IF fractions[c].str = <<>> THEN toString(whole)
    ELSE toString(whole) \o <<" ">> \o fractions[c].str

\* The text built once whole, the closest candidate c and the outcome of
\* minDiff < 0.05 are known
render(whole, c, close) ==
    IF close
    THEN IF fractions[c].value = 0 THEN toString(whole) ELSE toString(whole + 1)
    ELSE IF whole = 0 THEN fractions[c].str
    ELSE IF fractions[c].str = <<>> THEN toString(whole)
    ELSE toString(whole) \o <<" ">> \o fractions[c].str

toFraction(dec, r) ==
    IF dec.k = "inf" THEN <<"I", "n", "f", "i", "n", "i", "t", "y">>
    ELSE IF dec.k = "nan" THEN <<"N", "a", "N">>
    ELSE LET c == closestIndex(dec, r)
         IN  render(floor(dec, r), c, withinTolerance(dec, diffTo(dec, r, c)))

\* The roundings that can occur for an argument of toFraction.  The floor
\* can fall below an integer real value only when the double is inexact.  A
\* difference is exact when the argument and the candidate are both exact
\* doubles; an inexact difference can only change a comparison when it is
\* the smallest of the differences and its real value equals the tolerance
\* or another candidate's difference.
NoRounding == [down |-> FALSE, e |-> [i \in DOMAIN fractions |-> 0]]

IsExactCandidate(i) == fractions[i].value \in {0, 25, 50, 75}

\* the candidates whose computed difference may fall on either side of its
\* real value in a way that changes a comparison
Sensitive(dec) ==
    { i \in DOMAIN fractions :
        /\ ~(dec.x /\ IsExactCandidate(i))
        /\ \A j \in DOMAIN fractions :
              diffTo(dec, NoRounding, i).n <= diffTo(dec, NoRounding, j).n
        /\ \/ diffTo(dec, NoRounding, i).n = tolerance * dec.d
           \/ \E j \in DOMAIN fractions \ {i} :
                 diffTo(dec, NoRounding, i).n = diffTo(dec, NoRounding, j).n }

Roundings(dec) ==
    IF dec.k # "num" THEN {NoRounding}
    ELSE IF ~dec.x /\ dec.d = 1 /\ dec.n >= 1
    THEN {NoRounding, [down |-> TRUE, e |-> NoRounding.e]}
    ELSE { [down |-> FALSE,
            e |-> [i \in DOMAIN fractions |-> IF i \in Sensitive(dec) THEN g[i] ELSE 0]] :
              g \in [Sensitive(dec) -> {-1, 0, 1}] }

(***************************************************************************)
(* scaleIngredient                                                         *)
(***************************************************************************)
\* /[a-z]+/ matched at position i: capitals are not part of a unit
LettersAtLowerOnly(s, i) ==
    LET IsLower(c) == c \in Range(LowerLetters)
        j == RunEnd(s, i, IsLower)
    IN  IF j >= i THEN << SubSeq(s, i, j) >> ELSE <<>>

\* /[a-zA-Z]+/ matched at position i
LettersAt(s, i) ==
    LET j == RunEnd(s, i, IsLetter)
    IN  IF j >= i THEN << SubSeq(s, i, j) >> ELSE <<>>

\* scaleIngredient without the early return for a null parse result (null
\* then counts as 0 in the multiplication)
scaleIngredientNoNullCheck(ing, from, to, r) ==
    LET parsedQuantity == parseQuantity(ing.quantity)
        scaleFactor == Divide(to, from)
        scaledQuantity == Mul(parsedQuantity, scaleFactor)
        unitMatch == Match(ing.quantity, LettersAt)
        unit == IF unitMatch # <<>> THEN unitMatch[1] ELSE <<>>
        quantityStr == toFraction(scaledQuantity, r)
        newQuantity == IF unit # <<>> THEN quantityStr \o <<" ">> \o unit
                       ELSE quantityStr
    IN  [ing EXCEPT !.quantity = newQuantity]

\* scaleIngredient with the factor fromServings / toServings
scaleIngredientInverseFactor(ing, from, to, r) ==
    LET parsedQuantity == parseQuantity(ing.quantity)
        scaleFactor == Divide(from, to)
        scaledQuantity == Mul(parsedQuantity, scaleFactor)
        unitMatch == Match(ing.quantity, LettersAt)
        unit == IF unitMatch # <<>> THEN unitMatch[1] ELSE <<>>
        quantityStr == toFraction(scaledQuantity, r)
        newQuantity == IF unit # <<>> THEN quantityStr \o <<" ">> \o unit
                       ELSE quantityStr
    IN  IF parsedQuantity = null THEN ing
        ELSE [ing EXCEPT !.quantity = newQuantity]

\* scaleIngredient returning a record built from quantity and name only
scaleIngredientDropsNotes(ing, from, to, r) ==
    LET parsedQuantity == parseQuantity(ing.quantity)
        scaleFactor == Divide(to, from)
        scaledQuantity == Mul(parsedQuantity, scaleFactor)
        unitMatch == Match(ing.quantity, LettersAt)
        unit == IF unitMatch # <<>> THEN unitMatch[1] ELSE <<>>
        quantityStr == toFraction(scaledQuantity, r)
        newQuantity == IF unit # <<>> THEN quantityStr \o <<" ">> \o unit
                       ELSE quantityStr
    IN  IF parsedQuantity = null THEN ing
        ELSE [quantity |-> newQuantity, name |-> ing.name]

scaleIngredient(ing, from, to, r) ==
    LET parsedQuantity == parseQuantity(ing.quantity)
        scaleFactor == Divide(to, from)
        scaledQuantity == Mul(parsedQuantity, scaleFactor)
        unitMatch == Match(ing.quantity, LettersAt)
        unit == IF unitMatch # <<>> THEN unitMatch[1] ELSE <<>>
        quantityStr == toFraction(scaledQuantity, r)
        newQuantity == IF unit # <<>> THEN quantityStr \o <<" ">> \o unit
                       ELSE quantityStr
    IN  IF parsedQuantity = null THEN ing
        ELSE [ing EXCEPT !.quantity = newQuantity]

\* The number handed to toFraction by scaleIngredient (null when
\* scaleIngredient returns before calling it)
scaledQuantityOf(ing, from, to) ==
    IF parseQuantity(ing.quantity) = null THEN null
    ELSE Mul(parseQuantity(ing.quantity), Divide(to, from))

\* The ingredient object passed to scaleIngredient, as the caller sees it
\* after the call: both returns build a new object by spread, and no
\* statement assigns to a property of the parameter.
ingredientAfterScale(ing, from, to) == ing

(***************************************************************************)
(* scaleRecipeServings                                                     *)
(***************************************************************************)
\* scaleRecipeServings without the update of servings
scaleRecipeServingsKeepsServings(rcp, newServings, rs) ==
    LET scaledIngredients ==
            [i \in DOMAIN rcp.ingredients |->
                scaleIngredient(rcp.ingredients[i], rcp.servings, newServings, rs[i])]
    IN  [rcp EXCEPT !.ingredients = scaledIngredients]

\* scaleRecipeServings returning a record built from the required fields only
scaleRecipeServingsRequiredOnly(rcp, newServings, rs) ==
    LET scaledIngredients ==
            [i \in DOMAIN rcp.ingredients |->
                scaleIngredient(rcp.ingredients[i], rcp.servings, newServings, rs[i])]
    IN  [name |-> rcp.name, servings |-> newServings,
         ingredients |-> scaledIngredients, instructions |-> rcp.instructions,
         source |-> rcp.source]

\* rs[i] is the rounding inside the toFraction of the i-th ingredient
scaleRecipeServings(rcp, newServings, rs) ==
    LET scaledIngredients ==
            [i \in DOMAIN rcp.ingredients |->
                scaleIngredient(rcp.ingredients[i], rcp.servings, newServings, rs[i])]
    IN  [rcp EXCEPT !.servings = newServings, !.ingredients = scaledIngredients]

\* The recipe object passed to scaleRecipeServings, as the caller sees it
\* after the call: map builds a new array, the return a new object.
recipeAfterScale(rcp, newServings) == rcp

\* every sequence that takes its i-th element from sets[i]
RECURSIVE Choices(_)
Choices(sets) ==
    IF sets = <<>> THEN {<<>>}
    ELSE {<<h>> \o t : h \in Head(sets), t \in Choices(Tail(sets))}

\* the roundings that can happen inside one call of scaleRecipeServings
RecipeRoundings(rcp, newServings) ==
    Choices([i \in DOMAIN rcp.ingredients |->
        Roundings(scaledQuantityOf(rcp.ingredients[i], rcp.servings, newServings))])

(***************************************************************************)
(* Arguments the functions are called with.                                *)
(***************************************************************************)
SmallAlphabet == {"0", "1", "2", " ", "/", ".", "c"}

\* every text of at most k characters over SmallAlphabet
Texts(k) == UNION {[1..m -> SmallAlphabet] : m \in 0..k}

Slash == <<"/">>
Dot == <<".">>

IntegerTexts == {toString(n) : n \in (0..MaxInt) \cup {10, 12}}

DecimalTexts ==
    {toString(a) \o Dot \o f :
        a \in 0..MaxInt, f \in {<<>>, <<"0">>, <<"5">>, <<"2", "5">>}}

FractionTexts ==
    {toString(b) \o Slash \o toString(c) : b \in 0..MaxInt, c \in 0..MaxInt}

Gaps == {<<" ">>, <<" ", " ">>, <<"\t">>}

MixedTexts(gaps) ==
    {toString(a) \o g \o f : a \in 0..MaxInt, g \in gaps, f \in FractionTexts}

NumericTexts(gaps) ==
    IntegerTexts \cup DecimalTexts \cup FractionTexts \cup MixedTexts(gaps)

Leads == {<<>>, <<" ">>}

Cups == <<" ", "c", "u", "p", "s">>
Tbsp == <<" ", " ", "T", "b", "s", "p">>

UnitSuffixes == {<<>>, <<" ">>, Cups, Tbsp}

StructuredTexts ==
    {lead \o q \o u : lead \in Leads, q \in NumericTexts(Gaps), u \in UnitSuffixes}

UpperChar(c) ==
    IF c \in Range(LowerLetters)
    THEN UpperLetters[CHOOSE i \in DOMAIN LowerLetters : LowerLetters[i] = c]
    ELSE c

CaseVariants(t) ==
    {t, [i \in DOMAIN t |-> UpperChar(t[i])],
        [i \in DOMAIN t |-> IF i = 1 THEN UpperChar(t[i]) ELSE t[i]]}

TermPrefixes ==
    {<<>>, <<" ">>, <<"a", " ">>, <<"2", " ">>, <<"1", "/", "2", " ">>,
     <<"1", " ", "1", "/", "2", " ">>}

TermSuffixes == {<<>>, <<" ">>, <<"e", "s">>, <<" ", "3">>}

AllTerms == UNION {CaseVariants(nonScalableTerms[i]) : i \in DOMAIN nonScalableTerms}

\* texts that contain a non-scalable term
TermTexts ==
    {pre \o t \o suf : pre \in TermPrefixes, t \in AllTerms, suf \in TermSuffixes}

QuantityInputs == Texts(MaxLen) \cup StructuredTexts \cup TermTexts

\* quantities of the repository's tests, and quantities with text before
\* the number or after the unit
ExampleQuantities ==
    {<<"1", " ", "c", "u", "p">>,
     <<"1", "/", "2", " ", "c", "u", "p">>,
     <<"4", " ", "c", "u", "p", "s">>,
     <<"2", " ", "c", "u", "p", "s", " ", "f", "l", "o", "u", "r">>,
     <<"1", " ", "c", "u", "p", " ", "(", "8", " ", "o", "z", ")">>,
     <<"a", "b", "o", "u", "t", " ", "2", " ", "c", "u", "p", "s">>,
     <<"2", "T", "b", "s", "p", ".">>}

\* quantities of the ingredients handed to scaleIngredient
ScaleQuantityInputs ==
    {q \o u : q \in NumericTexts({<<" ">>}), u \in {<<>>, Cups, Tbsp}}
    \cup {pre \o t \o suf : pre \in {<<>>, <<"2", " ">>, <<"1", "/", "2", " ">>},
                            t \in AllTerms, suf \in {<<>>, <<" ", "3">>}}
    \cup Texts(MaxLen - 2)
    \cup ExampleQuantities

Ingredients ==
    {[quantity |-> q, name |-> "flour"] : q \in ScaleQuantityInputs}
    \cup {[quantity |-> q, name |-> "chicken", notes |-> "diced"] :
             q \in ScaleQuantityInputs}

Servings == 0..MaxServings

\* the ingredients of the recipes handed to scaleRecipeServings
RecipeIngredients ==
    {[quantity |-> <<"1", " ", "c", "u", "p">>, name |-> "flour"],
     [quantity |-> <<"2", " ", "c", "u", "p", "s">>, name |-> "milk", notes |-> "warm"],
     [quantity |-> <<"t", "o", " ", "t", "a", "s", "t", "e">>, name |-> "salt"],
     [quantity |-> <<"1", "/", "3", " ", "c", "u", "p">>, name |-> "sugar"]}

IngredientLists == UNION {[1..m -> RecipeIngredients] : m \in 0..MaxIngredients}

RecipeSource ==
    [platform |-> "Web", author |-> "Example", url |-> "https://example.com/pancakes"]

\* a recipe without and with the optional fields
Recipes ==
    {[name |-> "Pancakes", servings |-> Number(n), ingredients |-> l,
      instructions |-> <<"Mix", "Cook">>, source |-> RecipeSource] :
        n \in Servings, l \in {k \in IngredientLists : Len(k) <= 1}}
    \cup {[name |-> "Pancakes", servings |-> Number(n), prepTime |-> 10,
           cookTime |-> 20, ingredients |-> l, instructions |-> <<"Mix", "Cook">>,
           nutrition |-> [protein |-> 10, fiber |-> 5, calories |-> 300],
           source |-> RecipeSource] :
        n \in Servings, l \in IngredientLists}

\* numbers w + k/den with 0 <= k < den
Grid(den) == {Num(w * den + k, den) : w \in 0..MaxWhole, k \in 0..(den - 1)}

DecimalInputs == Grid(1000) \cup Grid(8) \cup Grid(3) \cup Grid(7)

NoIngredient == [quantity |-> <<>>, name |-> "none"]

NoRecipe ==
    [name |-> "none", servings |-> Number(1), ingredients |-> <<>>,
     instructions |-> <<>>, source |-> RecipeSource]

(***************************************************************************)
(* The recipe search: handleRecipeSearch, searchForRecipe, the cache       *)
(* (cacheService.ts) and the answers of the Claude API.                    *)
(*                                                                         *)
(* A property holding undefined stands for a property that is absent or    *)
(* undefined: JavaScript reads both as undefined and JSON.stringify drops  *)
(* both.  A row's recipe column (JSON text) is held as the value it parses *)
(* to.  The database is assumed to work: no statement throws.              *)
(***************************************************************************)
\* a < n and a > n for a JavaScript value a and an integer n (false for NaN)
LessThan(a, n) == ToNumber(a).k = "num" /\ ToNumber(a).n < n
GreaterThan(a, n) == ToNumber(a).k = "num" /\ ToNumber(a).n > n

\* handleRecipeSearch's validation: the error message of the 400 response,
\* or "" when the request passes
validationError(body) ==
    IF body.query.t # "string" \/ body.query.v = <<>> \/ trim(body.query.v) = <<>>
    THEN "Query is required and must be a non-empty string"
    ELSE IF body.config.t # "object"
    THEN "Config is required"
    ELSE IF LessThan(body.config.servings, 1) \/ GreaterThan(body.config.servings, 8)
    THEN "Servings must be between 1 and 8"
    ELSE ""

\* 7 days, in weeks
RECIPE_CACHE_TTL == 1

\* the number of entries the design lets the cache hold
CacheLimit == 1000

\* a hash of the query alone
generateQueryHashQueryOnly(query, config) == [query |-> query, servings |-> undefined]

\* sha256 of JSON.stringify({query, config}): taken to be free of collisions
generateQueryHash(query, config) == [query |-> query, servings |-> config.servings]

\* The recipes table: a set of rows.  The id column (AUTOINCREMENT) is read
\* nowhere and is left out.
EmptyCache == {}

\* the rows WHERE query_hash = ?
rowsOf(rows, queryHash) == {row \in rows : row.query_hash = queryHash}

\* DELETE FROM recipes WHERE query_hash = ?
deleteCachedRecipe(rows, queryHash) == rows \ rowsOf(rows, queryHash)

\* getCachedRecipe with an expiry test that also expires a row at the very
\* end of its 7 days
getCachedRecipeExpiresAtTTL(rows, queryHash, t) ==
    IF rowsOf(rows, queryHash) = {}
    THEN [hit |-> FALSE, recipe |-> NoRecipe, rows |-> rows]
    ELSE LET row == CHOOSE r \in rowsOf(rows, queryHash) : TRUE
         IN  IF t - row.created_at >= RECIPE_CACHE_TTL
             THEN [hit |-> FALSE, recipe |-> NoRecipe,
                   rows |-> deleteCachedRecipe(rows, queryHash)]
             ELSE [hit |-> TRUE, recipe |-> row.recipe,
                   rows |-> {IF r.query_hash = queryHash
                             THEN [r EXCEPT !.accessed_at = t,
                                            !.access_count = @ + 1]
                             ELSE r : r \in rows}]

\* getCachedRecipe with a hit that also sets created_at, so that reading a
\* row keeps it alive
getCachedRecipeRefreshes(rows, queryHash, t) ==
    IF rowsOf(rows, queryHash) = {}
    THEN [hit |-> FALSE, recipe |-> NoRecipe, rows |-> rows]
    ELSE LET row == CHOOSE r \in rowsOf(rows, queryHash) : TRUE
         IN  IF t - row.created_at > RECIPE_CACHE_TTL
             THEN [hit |-> FALSE, recipe |-> NoRecipe,
                   rows |-> deleteCachedRecipe(rows, queryHash)]
             ELSE [hit |-> TRUE, recipe |-> row.recipe,
                   rows |-> {IF r.query_hash = queryHash
                             THEN [r EXCEPT !.created_at = t, !.accessed_at = t,
                                            !.access_count = @ + 1]
                             ELSE r : r \in rows}]

\* getCachedRecipe called at time t: whether a recipe is returned, the
\* recipe, and the rows after the call.  stmt.get yields one row of those
\* that match; DELETE and UPDATE act on all of them.
getCachedRecipe(rows, queryHash, t) ==
    IF rowsOf(rows, queryHash) = {}
    THEN [hit |-> FALSE, recipe |-> NoRecipe, rows |-> rows]
    ELSE LET row == CHOOSE r \in rowsOf(rows, queryHash) : TRUE
         IN  IF t - row.created_at > RECIPE_CACHE_TTL
             THEN [hit |-> FALSE, recipe |-> NoRecipe,
                   rows |-> deleteCachedRecipe(rows, queryHash)]
             ELSE [hit |-> TRUE, recipe |-> row.recipe,
                   rows |-> {IF r.query_hash = queryHash
                             THEN [r EXCEPT !.accessed_at = t,
                                            !.access_count = @ + 1]
                             ELSE r : r \in rows}]

\* cacheRecipe with a plain INSERT into a table without the UNIQUE
\* constraint on query_hash
cacheRecipeInsertOnly(rows, queryHash, rcp, t) ==
    rows \cup {[query_hash |-> queryHash, recipe |-> rcp, created_at |-> t,
                accessed_at |-> t, access_count |-> 1]}

\* INSERT OR REPLACE at time t: query_hash is UNIQUE, so the rows in
\* conflict with the new one are deleted before it is inserted
cacheRecipe(rows, queryHash, rcp, t) ==
    (rows \ rowsOf(rows, queryHash))
    \cup {[query_hash |-> queryHash, recipe |-> rcp, created_at |-> t,
           accessed_at |-> t, access_count |-> 1]}

\* cleanupExpiredCache that also deletes the rows exactly 7 days old
cleanupExpiredCacheAtTTL(rows, t) ==
    {row \in rows : ~(row.created_at <= t - RECIPE_CACHE_TTL)}

\* DELETE FROM recipes WHERE created_at < now - RECIPE_CACHE_TTL
cleanupExpiredCache(rows, t) ==
    {row \in rows : ~(row.created_at < t - RECIPE_CACHE_TTL)}

\* Request bodies
Pasta == <<"p", "a", "s", "t", "a">>

QueryValues ==
    {[t |-> "string", v |-> Pasta], [t |-> "string", v |-> <<" ">>],
     [t |-> "string", v |-> <<>>], [t |-> "undefined", v |-> <<>>],
     [t |-> "number", v |-> <<>>]}

RequestServings ==
    {Number(n) : n \in {0, 1, 2, 8, 9}}
    \cup {undefined, nullValue, SomeText, NumericString(2)}

ConfigValues ==
    {[t |-> "undefined", servings |-> undefined],
     [t |-> "string", servings |-> undefined]}
    \cup {[t |-> "object", servings |-> sv] : sv \in RequestServings}

\* every config with the query that passes, and every query with a config
\* that passes
RequestBodies ==
    {[query |-> [t |-> "string", v |-> Pasta], config |-> c] : c \in ConfigValues}
    \cup {[query |-> q, config |-> [t |-> "object", servings |-> Number(2)]] :
            q \in QueryValues}

\* The recipes analyzeAndSelectBestRecipe returns: whatever object the
\* JSON of the model's answer parses to
ClaudeRecipes ==
    {[name |-> "Pasta", servings |-> sv,
      ingredients |-> <<[quantity |-> <<"1", " ", "c", "u", "p">>, name |-> "flour"],
                        [quantity |-> <<"t", "o", " ", "t", "a", "s", "t", "e">>,
                         name |-> "salt"]>>,
      instructions |-> <<"Boil">>, source |-> RecipeSource] :
        sv \in {Number(0), Number(2), Number(4), undefined}}

\* how the awaited analyzeAndSelectBestRecipe ends
AnalysisOutcomes ==
    {[error |-> "ClaudeAPIError", recipe |-> NoRecipe]}
    \cup {[error |-> "", recipe |-> rcp] : rcp \in ClaudeRecipes}

\* how the awaited generateSearchStrategy ends: with a strategy, with a
\* ClaudeAPIError, or with JSON that is no strategy (strategy.sources.length
\* then throws a TypeError)
StrategyOutcomes == {"", "ClaudeAPIError", "TypeError"}

\* why a call of client.messages.create, or the reading of its answer,
\* fails: the type of the error of the API, or the SyntaxError of JSON.parse
ClaudeFailures ==
    {"rate_limit_error", "authentication_error", "invalid_request_error",
     "SyntaxError"}

\* what getCachedRecipe does on a miss: it deletes the row when there is one
\* (the row is then an expired one)
lookupSteps(rows, queryHash) ==
    IF rowsOf(rows, queryHash) = {}
    THEN <<"getCachedRecipe">>
    ELSE <<"getCachedRecipe", "deleteCachedRecipe">>

\* nothing returned by a fresh search yet
NothingStored == [queryHash \in {} |-> 0]

\* a fresh search for queryHash returned rcp and cached it at time t
remember(sofar, queryHash, rcp, t) ==
    [h \in DOMAIN sofar \cup {queryHash} |->
        IF h = queryHash THEN [recipe |-> rcp, at |-> t] ELSE sofar[h]]

\* what of sofar is no more than 7 days old at time t
recent(sofar, t) ==
    [h \in {k \in DOMAIN sofar : t - sofar[k].at <= RECIPE_CACHE_TTL} |-> sofar[h]]

\* The keys and the recipes of the direct calls of the cache
CacheKeys ==
    {generateQueryHash(Pasta, [t |-> "object", servings |-> Number(n)]) : n \in {2, 4}}

CachedRecipes == {rcp \in ClaudeRecipes : rcp.servings \in {Number(2), Number(4)}}

NoCall ==
    [op |-> "none", queryHash |-> generateQueryHash(<<>>, [servings |-> undefined]),
     recipe |-> NoRecipe, hit |-> FALSE, returned |-> NoRecipe, before |-> EmptyCache]

\* The first message of ChatInterface, "Hello! I'm your Recipe Finder AI
\* assistant. ...": texts of messages are shortened
Greeting ==
    [role |-> "assistant", content |-> <<"H", "e", "l", "l", "o">>, recipe |-> "undefined"]

NoRequest ==
    [query |-> [t |-> "undefined", v |-> <<>>],
     config |-> [t |-> "undefined", servings |-> undefined]]

NoResponse == [status |-> 0, error |-> "", recipe |-> NoRecipe, cached |-> FALSE]

NoScaling == [called |-> FALSE, recipe |-> NoRecipe, newServings |-> undefined]

\* the response of handleRecipeSearch's catch block
errorResponse(name) ==
    IF name = "RecipeNotFoundError"
    THEN [status |-> 404, error |-> "No recipes found", recipe |-> NoRecipe,
          cached |-> FALSE]
    ELSE IF name = "ClaudeAPIError"
    THEN [status |-> 503, error |-> "AI service temporarily unavailable",
          recipe |-> NoRecipe, cached |-> FALSE]
    ELSE [status |-> 500, error |-> "Internal server error", recipe |-> NoRecipe,
          cached |-> FALSE]

(***************************************************************************)
(* The calls.  The functions are pure and keep no state between calls: a   *)
(* state holds the arguments and the result of the call in progress, and   *)
(* op = "none" between calls.                                              *)
(***************************************************************************)
Init ==
    /\ op = "none"
    /\ quantity = <<>>
    /\ ingredient = NoIngredient
    /\ ingredientAfter = NoIngredient
    /\ fromServings = 1
    /\ toServings = 1
    /\ decimal = null
    /\ rounding = NoRounding
    /\ parsed = null
    /\ text = <<>>
    /\ scaled = NoIngredient
    /\ recipe = NoRecipe
    /\ recipeAfter = NoRecipe
    /\ roundings = <<>>
    /\ scaledRecipe = NoRecipe
    /\ request = NoRequest
    /\ pc = "idle"
    /\ searched = FALSE
    /\ scaling = NoScaling
    /\ response = NoResponse
    /\ steps = <<>>
    /\ stored = NothingStored
    /\ cache = EmptyCache
    /\ call = NoCall
    /\ now = 0
    /\ wr = "none"
    /\ maxRetries = 0
    /\ attempt = 0
    /\ lastError = "undefined"
    /\ invocations = 0
    /\ delays = <<>>
    /\ result = ""
    /\ messages = <<Greeting>>
    /\ input = <<>>
    /\ isLoading = FALSE
    /\ currentRecipe = "null"
    /\ inFlight = <<>>
    /\ lastSend = "none"

\* no call of scaleIngredient in progress
NoIngredientCall ==
    /\ ingredient' = NoIngredient
    /\ ingredientAfter' = NoIngredient
    /\ fromServings' = 1
    /\ scaled' = NoIngredient

\* no call of scaleRecipeServings in progress
NoRecipeCall ==
    /\ recipe' = NoRecipe
    /\ recipeAfter' = NoRecipe
    /\ roundings' = <<>>
    /\ scaledRecipe' = NoRecipe

ParseQuantity ==
    /\ op = "none"
    /\ \E q \in QuantityInputs :
        /\ op' = "parseQuantity"
        /\ quantity' = q
        /\ parsed' = parseQuantity(q)
        /\ toServings' = 1
        /\ decimal' = null
        /\ rounding' = NoRounding
        /\ text' = <<>>
        /\ NoIngredientCall
        /\ NoRecipeCall
        /\ UNCHANGED <<searchVars, retryVars, chatVars>>

ToFraction ==
    /\ op = "none"
    /\ \E dec \in DecimalInputs :
        \E r \in Roundings(dec) :
            /\ op' = "toFraction"
            /\ decimal' = dec
            /\ rounding' = r
            /\ text' = toFraction(dec, r)
            /\ quantity' = <<>>
            /\ parsed' = null
            /\ toServings' = 1
            /\ NoIngredientCall
            /\ NoRecipeCall
            /\ UNCHANGED <<searchVars, retryVars, chatVars>>

ScaleIngredient ==
    /\ op = "none"
    /\ \E ing \in Ingredients, from \in Servings, to \in Servings :
        \E r \in Roundings(scaledQuantityOf(ing, Number(from), Number(to))) :
            /\ op' = "scaleIngredient"
            /\ ingredient' = ing
            /\ fromServings' = from
            /\ toServings' = to
            /\ rounding' = r
            /\ scaled' = scaleIngredient(ing, Number(from), Number(to), r)
            /\ ingredientAfter' = ingredientAfterScale(ing, Number(from), Number(to))
            /\ quantity' = <<>>
            /\ parsed' = null
            /\ decimal' = null
            /\ text' = <<>>
            /\ NoRecipeCall
            /\ UNCHANGED <<searchVars, retryVars, chatVars>>

ScaleRecipeServings ==
    /\ op = "none"
    /\ \E rcp \in Recipes, to \in Servings :
        \E rs \in RecipeRoundings(rcp, Number(to)) :
            /\ op' = "scaleRecipeServings"
            /\ recipe' = rcp
            /\ toServings' = to
            /\ roundings' = rs
            /\ scaledRecipe' = scaleRecipeServings(rcp, Number(to), rs)
            /\ recipeAfter' = recipeAfterScale(rcp, Number(to))
            /\ quantity' = <<>>
            /\ parsed' = null
            /\ decimal' = null
            /\ rounding' = NoRounding
            /\ text' = <<>>
            /\ NoIngredientCall
            /\ UNCHANGED <<searchVars, retryVars, chatVars>>

\* The call returns; nothing of it is kept.
Return ==
    /\ op # "none"
    /\ op' = "none"
    /\ quantity' = <<>>
    /\ toServings' = 1
    /\ decimal' = null
    /\ rounding' = NoRounding
    /\ parsed' = null
    /\ text' = <<>>
    /\ NoIngredientCall
    /\ NoRecipeCall
    /\ UNCHANGED <<searchVars, retryVars, chatVars>>

\* A request reaches handleRecipeSearch, which runs up to its first await
\* or to its response.  One request is handled at a time.
HandleRecipeSearch ==
    /\ pc = "idle"
    /\ response = NoResponse
    /\ \E body \in RequestBodies :
        LET queryHash == generateQueryHash(body.query.v, body.config)
            got == getCachedRecipe(cache, queryHash, now)
        IN  /\ validationError(body) = "" =>
                IF rowsOf(cache, queryHash) # {}
                THEN \A row \in rowsOf(cache, queryHash) :
                        row.access_count < MaxAccessCount
                ELSE Cardinality(cache) < MaxCacheEntries
            /\ request' = body
            /\ scaling' = NoScaling
            /\ IF validationError(body) # ""
               THEN /\ response' = [status |-> 400, error |-> validationError(body),
                                    recipe |-> NoRecipe, cached |-> FALSE]
                    /\ searched' = FALSE
                    /\ pc' = "idle"
                    /\ cache' = cache
                    /\ steps' = <<>>
               ELSE /\ searched' = TRUE
                    /\ cache' = got.rows
                    /\ IF got.hit
                       THEN /\ response' = [status |-> 200, error |-> "",
                                            recipe |-> got.recipe, cached |-> TRUE]
                            /\ pc' = "idle"
                            /\ steps' = <<"getCachedRecipe">>
                       ELSE /\ response' = NoResponse
                            /\ pc' = "generateSearchStrategy"
                            /\ steps' = lookupSteps(cache, queryHash)
                                         \o <<"generateSearchStrategy",
                                              "messages.create">>
    /\ UNCHANGED <<stored, now>>
    /\ UNCHANGED <<scalerVars, call, retryVars, chatVars>>

\* A searchForRecipe that, when generateSearchStrategy fails, caches an empty
\* recipe for the request before it reports the failure.
StrategyReturnsCachesFailure ==
    /\ pc = "generateSearchStrategy"
    /\ \E outcome \in StrategyOutcomes :
        IF outcome = ""
        THEN /\ pc' = "scrapeRecipes"
             /\ response' = response
             /\ steps' = Append(steps, "scrapeRecipes")
             /\ cache' = cache
        ELSE /\ pc' = "idle"
             /\ response' = errorResponse(outcome)
             /\ cache' = cacheRecipe(cache,
                             generateQueryHash(request.query.v, request.config),
                             NoRecipe, now)
             /\ \E cause \in (IF outcome = "ClaudeAPIError" THEN ClaudeFailures
                               ELSE {outcome}) :
                    steps' = Append(steps, cause)
    /\ UNCHANGED <<request, searched, scaling, stored, now>>
    /\ UNCHANGED <<scalerVars, call, retryVars, chatVars>>

\* The awaited generateSearchStrategy ends; on success scrapeRecipes is
\* called and awaited.
StrategyReturns ==
    /\ pc = "generateSearchStrategy"
    /\ \E outcome \in StrategyOutcomes :
        IF outcome = ""
        THEN /\ pc' = "scrapeRecipes"
             /\ response' = response
             /\ steps' = Append(steps, "scrapeRecipes")
        ELSE /\ pc' = "idle"
             /\ response' = errorResponse(outcome)
             /\ \E cause \in (IF outcome = "ClaudeAPIError" THEN ClaudeFailures
                               ELSE {outcome}) :
                    steps' = Append(steps, cause)
    /\ UNCHANGED <<request, searched, scaling, stored, cache, now>>
    /\ UNCHANGED <<scalerVars, call, retryVars, chatVars>>

\* The awaited scrapeRecipes ends: the mock scraper always returns
\* candidates, and analyzeAndSelectBestRecipe is called and awaited.
ScrapeReturns ==
    /\ pc = "scrapeRecipes"
    /\ pc' = "analyzeAndSelectBestRecipe"
    /\ steps' = steps \o <<"analyzeAndSelectBestRecipe", "messages.create">>
    /\ UNCHANGED <<request, searched, scaling, response, stored, cache, now>>
    /\ UNCHANGED <<scalerVars, call, retryVars, chatVars>>

\* The awaited analyzeAndSelectBestRecipe ends; on success the recipe is
\* scaled when its servings differ from the requested ones, cached and
\* returned.
AnalyzeReturns ==
    /\ pc = "analyzeAndSelectBestRecipe"
    /\ pc' = "idle"
    /\ \E outcome \in AnalysisOutcomes :
        LET selectedRecipe == outcome.recipe
            servings == request.config.servings
            rescale == selectedRecipe.servings # servings
        IN  IF outcome.error # ""
            THEN /\ response' = errorResponse(outcome.error)
                 /\ \E cause \in ClaudeFailures : steps' = Append(steps, cause)
                 /\ UNCHANGED <<scaling, stored, cache>>
            ELSE \E rs \in (IF rescale THEN RecipeRoundings(selectedRecipe, servings)
                             ELSE {<<>>}) :
                    LET scaledRecipeOut ==
                            IF rescale
                            THEN scaleRecipeServings(selectedRecipe, servings, rs)
                            ELSE selectedRecipe
                    IN  /\ scaling' = IF rescale
                                      THEN [called |-> TRUE, recipe |-> selectedRecipe,
                                            newServings |-> servings]
                                      ELSE NoScaling
                        /\ response' = [status |-> 200, error |-> "",
                                        recipe |-> scaledRecipeOut, cached |-> FALSE]
                        /\ cache' = cacheRecipe(cache,
                                        generateQueryHash(request.query.v, request.config),
                                        response'.recipe, now)
                        /\ stored' = remember(stored,
                                        generateQueryHash(request.query.v, request.config),
                                        response'.recipe, now)
                        /\ steps' = steps
                                     \o (IF rescale THEN <<"scaleRecipeServings">>
                                         ELSE <<>>)
                                     \o <<"cacheRecipe">>
    /\ UNCHANGED <<request, searched, now>>
    /\ UNCHANGED <<scalerVars, call, retryVars, chatVars>>

\* The response has been sent; nothing of the request is kept.
RequestDone ==
    /\ response # NoResponse
    /\ request' = NoRequest
    /\ searched' = FALSE
    /\ scaling' = NoScaling
    /\ response' = NoResponse
    /\ steps' = <<>>
    /\ UNCHANGED <<pc, stored, cache, now>>
    /\ UNCHANGED <<scalerVars, call, retryVars, chatVars>>

\* The hourly timer calls cleanupExpiredCache.
CleanupExpiredCache ==
    /\ response = NoResponse
    /\ cache' = cleanupExpiredCache(cache, now)
    /\ UNCHANGED <<request, pc, searched, scaling, response, steps, stored, now>>
    /\ UNCHANGED <<scalerVars, call, retryVars, chatVars>>

\* Time passes.
Tick ==
    /\ response = NoResponse
    /\ now < MaxTime
    /\ now' = now + 1
    /\ stored' = recent(stored, now + 1)
    /\ UNCHANGED <<request, pc, searched, scaling, response, steps, cache>>
    /\ UNCHANGED <<scalerVars, call, retryVars, chatVars>>

\* getCachedRecipe is called.
GetCachedRecipe ==
    /\ call = NoCall
    /\ pc = "idle"
    /\ response = NoResponse
    /\ \E queryHash \in CacheKeys :
        LET got == getCachedRecipe(cache, queryHash, now)
        IN  /\ \A row \in rowsOf(cache, queryHash) : row.access_count < MaxAccessCount
            /\ cache' = got.rows
            /\ call' = [op |-> "getCachedRecipe", queryHash |-> queryHash,
                        recipe |-> NoRecipe, hit |-> got.hit, returned |-> got.recipe,
                        before |-> cache]
    /\ UNCHANGED <<request, pc, searched, scaling, response, steps, stored, now>>
    /\ UNCHANGED <<scalerVars, retryVars, chatVars>>

\* cacheRecipe is called.
CacheRecipe ==
    /\ call = NoCall
    /\ pc = "idle"
    /\ response = NoResponse
    /\ \E queryHash \in CacheKeys, rcp \in CachedRecipes :
        /\ cache' = cacheRecipe(cache, queryHash, rcp, now)
        /\ call' = [op |-> "cacheRecipe", queryHash |-> queryHash, recipe |-> rcp,
                    hit |-> FALSE, returned |-> NoRecipe, before |-> cache]
        /\ stored' = remember(stored, queryHash, rcp, now)
    /\ UNCHANGED <<request, pc, searched, scaling, response, steps, now>>
    /\ UNCHANGED <<scalerVars, retryVars, chatVars>>

\* cleanupExpiredCache is called.
CleanupExpiredCacheCall ==
    /\ call = NoCall
    /\ pc = "idle"
    /\ response = NoResponse
    /\ cache' = cleanupExpiredCache(cache, now)
    /\ call' = [NoCall EXCEPT !.op = "cleanupExpiredCache", !.before = cache]
    /\ UNCHANGED <<request, pc, searched, scaling, response, steps, stored, now>>
    /\ UNCHANGED <<scalerVars, retryVars, chatVars>>

\* The call returns; nothing of it is kept but the rows.
CacheCallReturns ==
    /\ call # NoCall
    /\ call' = NoCall
    /\ UNCHANGED <<request, pc, searched, scaling, response, steps, stored, cache,
                   now>>
    /\ UNCHANGED <<scalerVars, retryVars, chatVars>>

\* Time passes between the calls.
CacheTick ==
    /\ call = NoCall
    /\ Tick

\* The next search for a recipe no search was made for yet ends: cacheRecipe
\* is called with a key that is not in the table.
CacheFreshRecipe ==
    /\ call = NoCall
    /\ pc = "idle"
    /\ response = NoResponse
    /\ Cardinality(cache) <= CacheLimit
    /\ cache' = cacheRecipe(cache,
                    generateQueryHash(toString(Cardinality(cache) + 1),
                                      [t |-> "object", servings |-> Number(2)]),
                    NoRecipe, now)
    /\ UNCHANGED <<request, pc, searched, scaling, response, steps, stored, call,
                   now>>
    /\ UNCHANGED <<scalerVars, retryVars, chatVars>>

(***************************************************************************)
(* withRetry.  The operation is any function returning a promise: each     *)
(* call of it ends by resolving or by rejecting with an error, whose type  *)
(* is one of the API's or is missing ("untyped": an Error without a type). *)
(***************************************************************************)
ErrorTypes ==
    {"authentication_error", "invalid_request_error", "rate_limit_error",
     "api_error", "overloaded_error", "untyped"}

\* Math.pow(2, n)
RECURSIVE pow2(_)
pow2(n) == IF n = 0 THEN 1 ELSE 2 * pow2(n - 1)

\* The loop of withRetry, entered at its test with attempt at value a: the
\* next call of operation(), or the throw that follows the loop.  The
\* message of that throw reads lastError.message, a TypeError while
\* lastError is undefined.
loopFrom(a, thrown) ==
    IF a < maxRetries'
    THEN /\ wr' = "operation"
         /\ invocations' = invocations + 1
         /\ result' = ""
    ELSE /\ wr' = "done"
         /\ invocations' = invocations
         /\ result' = IF thrown = "undefined" THEN "TypeError" ELSE "Failed after"

\* withRetry(operation, maxRetries) is called and runs to its first await
\* or to its end.
WithRetry ==
    /\ wr = "none"
    /\ \E m \in 0..MaxRetries :
        /\ maxRetries' = m
        /\ attempt' = 0
        /\ loopFrom(0, lastError)
    /\ UNCHANGED <<lastError, delays>>
    /\ UNCHANGED <<scalerVars, searchVars, chatVars>>

\* The awaited operation() resolves: withRetry returns its value.
OperationResolves ==
    /\ wr = "operation"
    /\ wr' = "done"
    /\ result' = "returned"
    /\ UNCHANGED <<maxRetries, attempt, lastError, invocations, delays>>
    /\ UNCHANGED <<scalerVars, searchVars, chatVars>>

\* The awaited operation() rejects: the error is thrown again when of the
\* two types, and else the delay is started.
OperationRejects ==
    /\ wr = "operation"
    /\ \E type \in ErrorTypes :
        /\ lastError' = type
        /\ IF type \in {"authentication_error", "invalid_request_error"}
           THEN /\ wr' = "done"
                /\ result' = "rethrown"
                /\ delays' = delays
           ELSE /\ wr' = "delay"
                /\ result' = result
                /\ delays' = Append(delays, pow2(attempt))
    /\ UNCHANGED <<maxRetries, attempt, invocations>>
    /\ UNCHANGED <<scalerVars, searchVars, chatVars>>

\* The timer of the delay fires: the loop goes on.
DelayEnds ==
    /\ wr = "delay"
    /\ attempt' = attempt + 1
    /\ maxRetries' = maxRetries
    /\ loopFrom(attempt + 1, lastError)
    /\ UNCHANGED <<lastError, delays>>
    /\ UNCHANGED <<scalerVars, searchVars, chatVars>>

\* withRetry has ended; nothing of the call is kept.
WithRetryEnds ==
    /\ wr = "done"
    /\ wr' = "none"
    /\ maxRetries' = 0
    /\ attempt' = 0
    /\ lastError' = "undefined"
    /\ invocations' = 0
    /\ delays' = <<>>
    /\ result' = ""
    /\ UNCHANGED <<scalerVars, searchVars, chatVars>>

NextRetry ==
    \/ WithRetry
    \/ OperationResolves
    \/ OperationRejects
    \/ DelayEnds
    \/ WithRetryEnds

(***************************************************************************)
(* ChatInterface.  React runs one event handler at a time and commits the  *)
(* state updates of a handler before the next event is handled: the part   *)
(* of handleSend before its await is one step, and the part after it one   *)
(* step.  Texts of messages are shortened.                                 *)
(***************************************************************************)
\* what the user can have typed
ChatInputs == {<<>>, <<" ">>, Pasta, <<" ", "p">>}

\* handleSend goes on: the negation of !input.trim() || isLoading
accepts(txt, loading) == ~(trim(txt) = <<>> \/ loading)

userMessage(txt) == [role |-> "user", content |-> txt, recipe |-> "undefined"]

\* "Found a great recipe for you! " and "(From cache)" when result.cached
assistantMessage(cached) ==
    [role |-> "assistant",
     content |-> IF cached THEN <<"F", "o", "u", "n", "d", " ", "(", "c", ")">>
                 ELSE <<"F", "o", "u", "n", "d", " ">>,
     recipe |-> "Pasta"]

\* "Sorry, I encountered an error: ... Please try again."
errorMessage ==
    [role |-> "assistant", content |-> <<"S", "o", "r", "r", "y">>, recipe |-> "undefined"]

\* The user changes the text of the input field, which is enabled.
SetInput ==
    /\ ~isLoading
    /\ \E txt \in ChatInputs : input' = txt
    /\ UNCHANGED <<messages, isLoading, currentRecipe, inFlight, lastSend>>
    /\ UNCHANGED <<scalerVars, searchVars, retryVars>>

\* handleSend without its setIsLoading(true)
HandleSendNotLoading ==
    /\ IF accepts(input, isLoading)
       THEN /\ Len(messages) < MaxMessages
            /\ messages' = Append(messages, userMessage(input))
            /\ input' = <<>>
            /\ isLoading' = isLoading
            /\ inFlight' = Append(inFlight, input)
            /\ lastSend' = "accepted"
       ELSE /\ lastSend' = "ignored"
            /\ UNCHANGED <<messages, input, isLoading, inFlight>>
    /\ UNCHANGED currentRecipe
    /\ UNCHANGED <<scalerVars, searchVars, retryVars>>

\* handleSend is called (a click on Send, the Enter key, or any other call)
\* and runs to its return or to its await.
HandleSend ==
    /\ IF accepts(input, isLoading)
       THEN /\ Len(messages) < MaxMessages
            /\ messages' = Append(messages, userMessage(input))
            /\ input' = <<>>
            /\ isLoading' = TRUE
            /\ inFlight' = Append(inFlight, input)
            /\ lastSend' = "accepted"
       ELSE /\ lastSend' = "ignored"
            /\ UNCHANGED <<messages, input, isLoading, inFlight>>
    /\ UNCHANGED currentRecipe
    /\ UNCHANGED <<scalerVars, searchVars, retryVars>>

\* inFlight without its i-th element
settled(i) == [j \in 1..(Len(inFlight) - 1) |-> IF j < i THEN inFlight[j] ELSE inFlight[j + 1]]

\* An awaited searchRecipes resolves: the try block goes on and the finally
\* block runs.
SearchResolves ==
    /\ \E i \in DOMAIN inFlight, cached \in BOOLEAN :
        /\ messages' = Append(messages, assistantMessage(cached))
        /\ inFlight' = settled(i)
    /\ currentRecipe' = "Pasta"
    /\ isLoading' = FALSE
    /\ UNCHANGED <<input, lastSend>>
    /\ UNCHANGED <<scalerVars, searchVars, retryVars>>

\* An awaited searchRecipes rejects: the catch and finally blocks run.
SearchRejects ==
    /\ \E i \in DOMAIN inFlight : inFlight' = settled(i)
    /\ messages' = Append(messages, errorMessage)
    /\ isLoading' = FALSE
    /\ UNCHANGED <<input, currentRecipe, lastSend>>
    /\ UNCHANGED <<scalerVars, searchVars, retryVars>>

NextChat ==
    \/ SetInput
    \/ HandleSend
    \/ SearchResolves
    \/ SearchRejects

NextFill ==
    \/ CacheFreshRecipe
    \/ CleanupExpiredCache

NextCache ==
    \/ GetCachedRecipe
    \/ CacheRecipe
    \/ CleanupExpiredCacheCall
    \/ CacheCallReturns
    \/ CacheTick

NextSearch ==
    \/ HandleRecipeSearch
    \/ StrategyReturns
    \/ ScrapeReturns
    \/ AnalyzeReturns
    \/ RequestDone
    \/ CleanupExpiredCache
    \/ Tick

Next ==
    \/ ParseQuantity
    \/ ToFraction
    \/ ScaleIngredient
    \/ ScaleRecipeServings
    \/ Return
    \/ NextSearch
    \/ NextCache
    \/ NextFill
    \/ NextRetry
    \/ NextChat

Spec == Init /\ [][Next]_vars

\* The recipe search only
SpecSearch == Init /\ [][NextSearch]_vars

\* The functions of the cache only, called in any order
SpecCache == Init /\ [][NextCache]_vars

\* withRetry only
SpecRetry == Init /\ [][NextRetry]_vars

\* ChatInterface only
SpecChat == Init /\ [][NextChat]_vars

\* ChatInterface when every call of searchRecipes settles: fetch resolves or
\* rejects in the end
SpecChatLive == SpecChat /\ WF_vars(SearchResolves \/ SearchRejects)

\* The cache filled by searches for ever new recipes
SpecFill == Init /\ [][NextFill]_vars

\* The calls of one function only
NextParse == ParseQuantity \/ Return
SpecParse == Init /\ [][NextParse]_vars

NextFraction == ToFraction \/ Return
SpecFraction == Init /\ [][NextFraction]_vars

NextScale == ScaleIngredient \/ Return
SpecScale == Init /\ [][NextScale]_vars

NextRecipe == ScaleRecipeServings \/ Return
SpecRecipe == Init /\ [][NextRecipe]_vars

(***************************************************************************)
(* The claims.  What a claim expects is written here from the claim's own  *)
(* words, without the definitions above that model the code.               *)
(***************************************************************************)
VagueTerms ==
    { <<"t", "o", " ", "t", "a", "s", "t", "e">>,
      <<"p", "i", "n", "c", "h">>,
      <<"d", "a", "s", "h">>,
      <<"h", "a", "n", "d", "f", "u", "l">>,
      <<"s", "p", "l", "a", "s", "h">> }

\* s contains the lower-case word t as a substring, whatever the case of s
ContainsIgnoringCase(s, t) ==
    \E i \in 1..(Len(s) - Len(t) + 1) :
        \A m \in 1..Len(t) : LowerChar(s[i + m - 1]) = t[m]

HasVagueTerm(s) == \E t \in VagueTerms : ContainsIgnoringCase(s, t)

HasDigit(s) == \E i \in DOMAIN s : IsDigit(s[i])

\* the finite number p has the value n/d
ValueIs(p, n, d) == p.k = "num" /\ p.n * d = n * p.d

\* C1: for every ingredient whose quantity contains, in any case, one of
\* "to taste", "pinch", "dash", "handful", "splash", and for every pair of
\* serving counts, scaleIngredient returns the quantity text unchanged.
C1_NonScalableUnchanged ==
    (op = "scaleIngredient" /\ HasVagueTerm(ingredient.quantity))
        => scaled.quantity = ingredient.quantity

\* "2 PINCH" scaled from 2 to 4 servings stays "2 PINCH"
C1_Witness ==
    /\ op = "scaleIngredient"
    /\ ingredient.quantity = <<"2", " ", "P", "I", "N", "C", "H">>
    /\ fromServings = 2
    /\ toServings = 4
    /\ scaled.quantity = <<"2", " ", "P", "I", "N", "C", "H">>

\* C2: parseQuantity looks for the non-scalable terms before any numeric
\* pattern: a text whose trimmed, lower-cased form contains one of the five
\* terms parses to null even when it also holds digits, a fraction or a
\* mixed number.
C2_TermsBeforeNumbers ==
    (op = "parseQuantity" /\ HasVagueTerm(quantity)) => parsed = null

\* "1/2 dash" parses to null
C2_Witness ==
    /\ op = "parseQuantity"
    /\ quantity = <<"1", "/", "2", " ", "d", "a", "s", "h">>
    /\ HasDigit(quantity)
    /\ parsed = null

MixedText(a, b, c) == toString(a) \o <<" ">> \o toString(b) \o <<"/">> \o toString(c)

FractionText(b, c) == toString(b) \o <<"/">> \o toString(c)

\* C3: without a non-scalable term the first matching pattern wins, in the
\* order mixed number, fraction, decimal or integer: "a b/c" parses to
\* a + b/c, "b/c" to b/c (c positive), "n" to exactly n, and a text in which
\* no pattern matches (a text without a digit) parses to null.
C3_PatternOrder ==
    op = "parseQuantity" =>
        /\ \A a \in 0..MaxInt, b \in 0..MaxInt, c \in 1..MaxInt :
              /\ quantity = MixedText(a, b, c) => ValueIs(parsed, a * c + b, c)
              /\ quantity = FractionText(b, c) => ValueIs(parsed, b, c)
        /\ \A n \in 0..(MaxInt + 10) :
              quantity = toString(n) => ValueIs(parsed, n, 1)
        /\ ~HasDigit(quantity) => parsed = null

\* "1 1/2" parses to 3/2, neither to 1 nor to 1/2
C3_Witness ==
    /\ op = "parseQuantity"
    /\ quantity = <<"1", " ", "1", "/", "2">>
    /\ ValueIs(parsed, 3, 2)

\* C4: parseQuantity returns, for every text, a finite non-negative number
\* or null (also for a fraction or mixed number whose denominator is 0).
C4_FiniteOrNull ==
    op = "parseQuantity" =>
        \/ parsed = null
        \/ parsed.k = "num" /\ parsed.n >= 0 /\ parsed.d > 0

\* the quantity without surrounding spaces, without a unit word after it,
\* and with every run of spaces inside it replaced by one space
RECURSIVE SingleSpaced(_)
SingleSpaced(s) ==
    IF s = <<>> THEN <<>>
    ELSE IF IsSpace(Head(s))
         THEN IF Len(s) > 1 /\ IsSpace(s[2]) THEN SingleSpaced(Tail(s))
              ELSE <<" ">> \o SingleSpaced(Tail(s))
         ELSE <<Head(s)>> \o SingleSpaced(Tail(s))

WithoutTrailing(s, P(_)) ==
    IF \A i \in DOMAIN s : P(s[i]) THEN <<>>
    ELSE SubSeq(s, 1, CHOOSE i \in DOMAIN s :
                          ~P(s[i]) /\ \A j \in (i + 1)..Len(s) : P(s[j]))

WithoutLeading(s, P(_)) ==
    IF \A i \in DOMAIN s : P(s[i]) THEN <<>>
    ELSE SubSeq(s, CHOOSE i \in DOMAIN s :
                       ~P(s[i]) /\ \A j \in 1..(i - 1) : P(s[j]), Len(s))

BareQuantity(s) ==
    SingleSpaced(
        WithoutLeading(
            WithoutTrailing(WithoutTrailing(WithoutTrailing(s, IsSpace), IsLetter), IsSpace),
            IsSpace))

\* C5: surrounding spaces, more spaces between the whole part and the
\* fraction, and a unit word after the number do not change the parsed
\* amount: the text parses to what the bare number text q parses to.
C5_SpacesAndUnitIgnored ==
    (/\ op = "parseQuantity"
     /\ ~HasVagueTerm(quantity)
     /\ BareQuantity(quantity) \in NumericTexts({<<" ">>}))
        => parsed = parseQuantity(BareQuantity(quantity))

\* " 1  1/2  Tbsp" parses to 3/2 as "1 1/2" does
C5_Witness ==
    /\ op = "parseQuantity"
    /\ quantity = <<" ", "1", " ", " ", "1", "/", "2", " ", " ", "T", "b", "s", "p">>
    /\ BareQuantity(quantity) = <<"1", " ", "1", "/", "2">>
    /\ ValueIs(parsed, 3, 2)

\* the cooking fractions: value in hundredths and text
CookingFractions ==
    { <<25, <<"1", "/", "4">> >>, <<33, <<"1", "/", "3">> >>,
      <<50, <<"1", "/", "2">> >>, <<67, <<"2", "/", "3">> >>,
      <<75, <<"3", "/", "4">> >> }

\* integer part and fractional remainder (numerator over decimal.d) of the
\* argument of toFraction
WholeOf(dec) == dec.n \div dec.d
RemainderOf(dec) == dec.n % dec.d

\* C6: a value w + c whose fractional part c is exactly a candidate value
\* (0.25, 0.33, 0.5, 0.67, 0.75) renders as that cooking fraction, preceded
\* by "w " when w > 0.
C6_CandidateRendersAsFraction ==
    (op = "toFraction" /\ decimal.k = "num") =>
        \A cf \in CookingFractions :
            RemainderOf(decimal) * 100 = cf[1] * decimal.d =>
                text = IF WholeOf(decimal) = 0 THEN cf[2]
                       ELSE toString(WholeOf(decimal)) \o <<" ">> \o cf[2]

\* C7: a value in (w + 0.95, w + 1) renders as the text of w + 1 and a value
\* in [w, w + 0.05) renders as the text of w.
C7_NearWholeRounds ==
    (op = "toFraction" /\ decimal.k = "num") =>
        /\ RemainderOf(decimal) * 100 > 95 * decimal.d
              => text = toString(WholeOf(decimal) + 1)
        /\ RemainderOf(decimal) * 100 < 5 * decimal.d
              => text = toString(WholeOf(decimal))

\* distance, in hundredths times dec.d, from the fractional remainder to the
\* candidate value v (in hundredths)
Distance(dec, v) == Abs(RemainderOf(dec) * 100 - v * dec.d)

CandidateValues == {0, 25, 33, 50, 67, 75}

C9_NeverEmpty ==
    (op = "toFraction" /\ decimal.k = "num") =>
        /\ text # <<>>
        /\ \/ \E n \in 0..(WholeOf(decimal) + 1) : text = toString(n)
           \/ \E cf \in CookingFractions :
                 \/ text = cf[2]
                 \/ text = toString(WholeOf(decimal)) \o <<" ">> \o cf[2]

\* the candidate that the claim says is chosen: one whose computed
\* difference is minimal and, among those, the earliest in the list
ChosenCandidate(dec, r) ==
    CHOOSE i \in DOMAIN fractions :
        /\ \A j \in DOMAIN fractions : ~Less(diffTo(dec, r, j), diffTo(dec, r, i))
        /\ \A j \in 1..(i - 1) : Less(diffTo(dec, r, i), diffTo(dec, r, j))

OutsideTolerance(dec, r) ==
    LET m == diffTo(dec, r, ChosenCandidate(dec, r))
    IN  m.n > 5 * dec.d \/ (m.n = 5 * dec.d /\ m.e >= 0)

FirstAlphaRun(s) ==
    LET letters == {i \in 1..Len(s) : IsLetter(s[i])}
    IN  IF letters = {} THEN <<>>
        ELSE LET i == CHOOSE a \in letters : \A b \in letters : a <= b
                 j == CHOOSE a \in i..Len(s) :
                        /\ \A m \in i..a : IsLetter(s[m])
                        /\ a = Len(s) \/ ~IsLetter(s[a + 1])
             IN  SubSeq(s, i, j)

\* a call of scaleIngredient with a scalable quantity and positive servings
ScalableCall ==
    /\ op = "scaleIngredient"
    /\ parseQuantity(ingredient.quantity) # null
    /\ fromServings >= 1
    /\ toServings >= 1

Txt2Cups == <<"2", " ", "c", "u", "p", "s">>
Txt4Cups == <<"4", " ", "c", "u", "p", "s">>
Txt1Cups == <<"1", " ", "c", "u", "p", "s">>
Txt1Cup == <<"1", " ", "c", "u", "p">>
Txt2Cup == <<"2", " ", "c", "u", "p">>
TxtHalfCup == <<"1", "/", "2", " ", "c", "u", "p">>
TxtQuarterCup == <<"1", "/", "4", " ", "c", "u", "p">>

C12_FractionKeepsUnit ==
    ScalableCall =>
        /\ (ingredient.quantity = Txt2Cups /\ toServings = 2 * fromServings)
                => scaled.quantity = Txt4Cups
        /\ \A b \in 1..9, c \in 1..9, f \in {<<1, 4>>, <<1, 2>>, <<3, 4>>} :
              LET u == FirstAlphaRun(ingredient.quantity)
              IN  (/\ u # <<>>
                   /\ ingredient.quantity = FractionText(b, c) \o <<" ">> \o u
                   /\ b * toServings * f[2] = f[1] * c * fromServings)
                    => scaled.quantity = FractionText(f[1], f[2]) \o <<" ">> \o u

\* TRUE when s ends with t
EndsWith(s, t) ==
    Len(s) >= Len(t) /\ SubSeq(s, Len(s) - Len(t) + 1, Len(s)) = t

C15_IdentityScaling ==
    (ScalableCall /\ fromServings = toServings
        /\ parseQuantity(ingredient.quantity).k = "num") =>
        LET before == parseQuantity(ingredient.quantity)
            after == parseQuantity(scaled.quantity)
        IN  /\ after.k = "num"
            /\ Abs(after.n * before.d - before.n * after.d) * 100
                   <= tolerance * before.d * after.d

\* the quantities of the round-trip law: an integer, a cooking fraction or
\* a mixed number of these, alone or followed by a space and a unit
RoundTripQuantities ==
    LET cooking == {<<1, 4>>, <<1, 3>>, <<1, 2>>, <<2, 3>>, <<3, 4>>}
        amounts == {toString(a) : a \in 1..9}
                   \cup {FractionText(f[1], f[2]) : f \in cooking}
                   \cup {MixedText(a, f[1], f[2]) : a \in 1..9, f \in cooking}
    IN  amounts \cup {a \o u : a \in amounts, u \in {<<" ", "c", "u", "p">>, Cups}}

\* C16: scaling such a quantity from 2 to 4 servings and the result from 4
\* to 2 servings gives back the original quantity text.
C16_RoundTrip ==
    (/\ op = "scaleIngredient"
     /\ fromServings = 2
     /\ toServings = 4
     /\ ingredient.quantity \in RoundTripQuantities) =>
        \A r \in Roundings(scaledQuantityOf(scaled, Number(4), Number(2))) :
            scaleIngredient(scaled, Number(4), Number(2), r).quantity
                = ingredient.quantity

(***************************************************************************)
(* Claims about scaleRecipeServings.                                       *)
(***************************************************************************)
TxtToTaste == <<"t", "o", " ", "t", "a", "s", "t", "e">>

RequestHandled == response # NoResponse \/ pc # "idle"

\* a number within 1..8
InServingRange(sv) == sv.t = "number" /\ sv.v \in 1..8

\* C19: a request whose config.servings is not a number within 1..8
\* (missing and non-numeric values included) is answered 400 without a call
\* of searchForRecipe, so every search that runs has a target serving
\* count within 1..8.
C19_ServingsRangeEnforced ==
    /\ (RequestHandled /\ ~InServingRange(request.config.servings))
            => (response.status = 400 /\ ~searched)
    /\ searched => InServingRange(request.config.servings)

\* C20: whenever searchForRecipe calls scaleRecipeServings, the servings
\* of the recipe it scales from are a positive number and the ratio
\* toServings / fromServings is finite.  Stated for the searches whose
\* requested servings are a number within 1..8.
C20_PositiveSourceServings ==
    (scaling.called /\ InServingRange(scaling.newServings)) =>
        /\ scaling.recipe.servings.t = "number"
        /\ scaling.recipe.servings.v >= 1
        /\ Divide(scaling.newServings, scaling.recipe.servings).k = "num"

\* the query hash of the request being handled or just answered
requestHash == generateQueryHash(request.query.v, request.config)

\* the steps taken so far include step
Took(step) == \E i \in DOMAIN steps : steps[i] = step

attempts ==
    LET started == {i \in DOMAIN steps :
                        steps[i] \in {"generateSearchStrategy",
                                      "analyzeAndSelectBestRecipe"}}
    IN  Cardinality({i \in DOMAIN steps :
                        /\ steps[i] = "messages.create"
                        /\ \A j \in started : j < i})

\* C23: when a call of the Claude API made by generateSearchStrategy or
\* analyzeAndSelectBestRecipe fails with a retryable error (here
\* rate_limit_error), the call is made again, and searchForRecipe reports
\* the failure only after 3 attempts.
C23_ClaudeFailureRetried ==
    (response.status = 503 /\ Took("rate_limit_error")) => attempts = 3

StepOrder ==
    <<"getCachedRecipe", "generateSearchStrategy", "scrapeRecipes",
      "analyzeAndSelectBestRecipe", "scaleRecipeServings", "cacheRecipe">>

StepNumber(step) == CHOOSE n \in DOMAIN StepOrder : StepOrder[n] = step

\* the steps taken so far were taken in the order of StepOrder, none but
\* scaleRecipeServings left out
InStepOrder ==
    LET taken == {i \in DOMAIN steps : \E n \in DOMAIN StepOrder : StepOrder[n] = steps[i]}
    IN  /\ \A i, j \in taken : i < j => StepNumber(steps[i]) < StepNumber(steps[j])
        /\ \A i \in taken :
            \A n \in 1..(StepNumber(steps[i]) - 1) :
                StepOrder[n] # "scaleRecipeServings" => Took(StepOrder[n])

\* searchForRecipe was called and threw
SearchFailed == searched /\ response.status \in {404, 500, 503}

Age(row) == now - row.created_at

C22_WitnessLookup ==
    /\ call.op = "getCachedRecipe"
    /\ \E row \in rowsOf(call.before, call.queryHash) : Age(row) > RECIPE_CACHE_TTL

\* C24: the cache is bounded: after any sequence of cacheRecipe,
\* getCachedRecipe and cleanupExpiredCache operations it does not hold more
\* than 1000 recipes (the least recently accessed ones being evicted).
C24_CacheBounded == Cardinality(cache) <= CacheLimit

\* the rows stored under other keys than the call's
OtherRows(rows) == rows \ rowsOf(rows, call.queryHash)

\* C28: a hit of getCachedRecipe sets accessed_at to now and adds exactly 1
\* to access_count in the row of the key, and changes nothing else:
\* created_at and the recipe of that row and all other rows stay as they
\* were.  So no recipe is returned more than 7 days after cacheRecipe wrote
\* it last, however often it is read.
C28_HitKeepsCreation ==
    (call.op = "getCachedRecipe" /\ call.hit) =>
        /\ OtherRows(cache) = OtherRows(call.before)
        /\ rowsOf(cache, call.queryHash) =
                {[row EXCEPT !.accessed_at = now, !.access_count = @ + 1] :
                    row \in rowsOf(call.before, call.queryHash)}
        /\ call.queryHash \in DOMAIN stored
        /\ call.returned = stored[call.queryHash].recipe

\* a row hit twice, the second time on its last day, with another row in the
\* table
C28_Witness ==
    /\ call.op = "getCachedRecipe"
    /\ call.hit
    /\ OtherRows(cache) # {}
    /\ \E row \in rowsOf(cache, call.queryHash) :
        /\ row.access_count = 3
        /\ Age(row) = RECIPE_CACHE_TTL

Fatal == lastError \in {"authentication_error", "invalid_request_error"}

\* C25: withRetry(operation, maxRetries) calls the operation at most
\* maxRetries times; it returns the first success without another attempt;
\* it throws an authentication_error or invalid_request_error again at once,
\* without another attempt and without a delay; after the k-th failed
\* attempt (k from 0) it waits 2^k seconds; and after maxRetries failures
\* that may be retried it ends by throwing the "Failed after" error.
C25_WithRetry ==
    /\ invocations <= maxRetries
    /\ \A k \in DOMAIN delays : delays[k] = pow2(k - 1)
    /\ result = "returned" =>
        /\ wr = "done"
        /\ invocations = Len(delays) + 1
    /\ result = "rethrown" =>
        /\ wr = "done"
        /\ Fatal
        /\ invocations = Len(delays) + 1
    /\ (wr = "operation" \/ wr = "delay") => invocations = attempt + 1
    /\ wr = "delay" => Len(delays) = invocations
    /\ (wr = "done" /\ result \notin {"returned", "rethrown"}) =>
        /\ result = "Failed after"
        /\ invocations = maxRetries
        /\ Len(delays) = maxRetries

\* withRetry ended with the "Failed after" error after three failures
C25_Witness ==
    /\ wr = "done"
    /\ result = "Failed after"
    /\ maxRetries = 3
    /\ delays = <<1, 2, 4>>

\* C25 for the calls with maxRetries of 1 or more
C25_WithRetryFromOne == (wr # "none" /\ maxRetries >= 1) => C25_WithRetry

(***************************************************************************)
(* Claims about ChatInterface.                                             *)
(***************************************************************************)
\* the message shown last
LastMessage == messages[Len(messages)]

\* after the greeting the messages come in pairs, a user message and then
\* the assistant's reply; a request is in flight exactly while isLoading,
\* which is exactly while the reply to the last user message is missing
ChatShape ==
    /\ messages[1] = Greeting
    /\ \A i \in 2..Len(messages) :
        messages[i].role = IF i % 2 = 0 THEN "user" ELSE "assistant"
    /\ Len(inFlight) <= 1
    /\ isLoading <=> Len(inFlight) = 1
    /\ isLoading <=> LastMessage.role = "user"

\* what each step of ChatInterface does
ChatSteps ==
    /\ HandleSend =>
        IF trim(input) # <<>> /\ ~isLoading
        THEN /\ messages' = Append(messages, userMessage(input))
             /\ inFlight' = <<input>>
             /\ isLoading'
        ELSE UNCHANGED <<messages, inFlight, isLoading>>
    /\ SearchResolves =>
        /\ Len(messages') = Len(messages) + 1
        /\ messages'[Len(messages')].role = "assistant"
        /\ messages'[Len(messages')].recipe # "undefined"
        /\ ~isLoading'
    /\ SearchRejects =>
        /\ messages' = Append(messages, errorMessage)
        /\ ~isLoading'

\* C30: every accepted send (input not blank, isLoading false) appends one
\* user message and then one assistant message, the recipe reply on success
\* and the error reply on failure; isLoading, true from the start of the
\* request, becomes false again whether the search succeeds or fails; a
\* send while isLoading is true appends nothing and issues no request, so
\* at most one request is in flight.
C30_ChatSend ==
    /\ []ChatShape
    /\ [][ChatSteps]_vars
    /\ (isLoading ~> ~isLoading)

\* a send was tried and ignored while the reply to the second send was
\* awaited, the first having failed
C30_Witness ==
    /\ isLoading
    /\ lastSend = "ignored"
    /\ Len(inFlight) = 1
    /\ Len(messages) = 4
    /\ messages[3] = errorMessage

====
